---- MODULE Spec2Model ----
(***************************************************************************)
(* The packing engine of Corte Certo (src/app7.py): OtimizadorCortes and   *)
(* the data classes Peca, PecaPosicionada, Faixa and Chapa; and the        *)
(* material aggregator around it (src/app16_Custo_total.py, src/app9.py):  *)
(* processar_otimizacao_por_tipo and the totals of                         *)
(* exibir_resultados_otimizacao.  Of the earlier engines it holds the      *)
(* ordering by width of src/app2.py and src/app4.py, and gerar_chapas of   *)
(* src/ap.py (SpecAp).                                                     *)
(*                                                                         *)
(* One behaviour of the engine is one OtimizadorCortes instance, built by  *)
(* __init__ and then running one call of otimizar (in SpecDeNovo, one call *)
(* after the other).  A step is the                                        *)
(* expansion and sort, one test of a loop, one strip build, or the closing *)
(* of a sheet.  One behaviour of the aggregator (SpecApp) is one call of   *)
(* processar_otimizacao_por_tipo, which runs such a call of otimizar for   *)
(* each sheet type, followed by the display of the totals.                 *)
(*                                                                         *)
(* Lengths are integers (millimetres); the code's floats only ever add,    *)
(* subtract and compare them.  The parts are small next to the 5 mm        *)
(* tolerance so that widths within it and beyond it both occur.  A Peca    *)
(* keeps the fields the packing reads: nome, the four edge-banding flags   *)
(* and the sheet's espessura are carried along by the code and never read  *)
(* by it.                                                                  *)
(*                                                                         *)
(* self.chapas grows without bound when a sheet comes back empty; the      *)
(* model keeps it up to the first such sheet (see SemProgresso).           *)
(***************************************************************************)
EXTENDS Integers, Sequences, FiniteSets, TLC

(***************************************************************************)
(* Bounds of the model                                                     *)
(***************************************************************************)
\* Number of Peca entries of the list handed to otimizar.
MaxPecas == 2

\* Largest quantidade of one Peca.
MaxQuantidade == 3

\* The most sheets self.chapas may hold when otimizar is called again on the
\* same optimizer.
MaxChapasAntes == 1

\* <<comprimento, largura>> of the parts the input draws from.  On the 8 x 32
\* sheet: 5 x 9 and 3 x 14 differ in width by the tolerance, 9 x 3 is longer
\* than the sheet and fits only rotated, 3 x 9 has the area of 9 x 3.
Formas == {<<5, 9>>, <<3, 14>>, <<9, 3>>, <<3, 9>>}

Kerfs == {0, 2}

\* <<comprimento_chapa, largura_chapa>>
GeometriasChapa == {<<8, 32>>}

\* A sheet as long and half as wide.
GeometriasEstreitas == {<<8, 16>>}

\* Dimensions drawn by the input that may break the data model's L > 0,
\* W > 0, quantidade >= 1.
DimensoesQuaisquer == {0, 3, 9}

\* Sheets that may have no area: no length, or no width.
GeometriasQuaisquer == {<<8, 32>>, <<0, 32>>, <<8, 0>>}

\* The sheet and the kerf of the documented scenarios, in millimetres.
GeometriasCenario == {<<2750, 1840>>}

KerfsCenario == {3}

\* <<comprimento, largura, quantidade, respeitar_veio>> of the parts of the
\* documented scenarios: four units of 800 x 300, one unit of the widths
\* 300, 305 and 310, and a grain-locked part longer than the sheet.
FormasCenario ==
    {<<800, 300, 4, FALSE>>, <<800, 300, 1, FALSE>>, <<800, 305, 1, FALSE>>,
     <<800, 310, 1, FALSE>>, <<3000, 300, 1, TRUE>>}

(***************************************************************************)
(* Program constants                                                       *)
(***************************************************************************)
\* The width tolerance of a strip: abs(peca.largura - altura_faixa) <= 5.
Tolerancia == 5

\* The options of the "Sentido do veio" selector; the first is the default
\* of __init__.
VeioHorizontal == "Horizontal (no comprimento)"

VeioVertical == "Vertical (na largura)"

SemVeio == "Sem veio (MDF)"

SentidosVeio == {VeioHorizontal, VeioVertical, SemVeio}

VARIABLES
    pecas,              \* the argument of otimizar: a sequence of Peca
    comprimento_chapa,  \* self.comprimento_chapa
    largura_chapa,      \* self.largura_chapa
    kerf,               \* self.kerf
    sentido_veio,       \* self.sentido_veio
    chapas,             \* self.chapas
    pecas_ordenadas,    \* the pool of otimizar (pecas_disponiveis in the callees)
    numero_chapa,       \* otimizar's sheet counter
    faixas,             \* _criar_chapa_otimizada's list of strips
    y_atual,            \* _criar_chapa_otimizada's vertical cursor
    pc,                 \* where the call stands
    pecas_data,         \* the argument of processar_otimizacao_por_tipo
    pecas_por_tipo,     \* its dict of sheet type -> [(peca_obj, tipo_fita_id)]
    indice_tipo,        \* the turn of its loop over pecas_por_tipo.items()
    resultados,         \* its dict of sheet type -> chapas and custos_fita
    totais              \* the totals of exibir_resultados_otimizacao

\* The state of the application around the engine.
estado_app == <<pecas_data, pecas_por_tipo, indice_tipo, resultados, totais>>

vars == <<pecas, comprimento_chapa, largura_chapa, kerf, sentido_veio, chapas,
          pecas_ordenadas, numero_chapa, faixas, y_atual, pc, estado_app>>

(***************************************************************************)
(* Data classes                                                            *)
(***************************************************************************)
\* class Peca, with the fields the packing reads.
Peca(c, l, q, v) ==
    [comprimento |-> c, largura |-> l, quantidade |-> q, respeitar_veio |-> v]

\* Peca.area
area(p) == p.comprimento * p.largura

\* copy.deepcopy(peca): a new object with the fields of peca.  origem and
\* copia stand for the identity of the new object (the index of the Peca in
\* the input and the number of the copy).
DeepCopy(p, i, k) ==
    [comprimento |-> p.comprimento, largura |-> p.largura,
     quantidade |-> p.quantidade, respeitar_veio |-> p.respeitar_veio,
     origem |-> i, copia |-> k]

\* class PecaPosicionada
PecaPosicionada(p, x, y, r) == [peca |-> p, x |-> x, y |-> y, rotacionada |-> r]

\* PecaPosicionada.comprimento_final
comprimento_final(pp) ==
    IF pp.rotacionada THEN pp.peca.largura ELSE pp.peca.comprimento

\* PecaPosicionada.largura_final
largura_final(pp) ==
    IF pp.rotacionada THEN pp.peca.comprimento ELSE pp.peca.largura

\* class Faixa
Faixa(y, a, ps) == [y_inicio |-> y, altura |-> a, pecas |-> ps]

\* class Chapa
Chapa(n, fs) ==
    [numero |-> n, comprimento |-> comprimento_chapa, largura |-> largura_chapa,
     kerf |-> kerf, faixas |-> fs]

(***************************************************************************)
(* Sequence helpers                                                        *)
(***************************************************************************)
\* list.pop(i), with i counted from 1
Pop(s, i) == [j \in 1..(Len(s) - 1) |-> IF j < i THEN s[j] ELSE s[j + 1]]

\* abs
Abs(n) == IF n < 0 THEN -n ELSE n

RECURSIVE SumSeq(_)
SumSeq(s) == IF s = <<>> THEN 0 ELSE Head(s) + SumSeq(Tail(s))

RECURSIVE Concat(_)
Concat(ss) == IF ss = <<>> THEN <<>> ELSE Head(ss) \o Concat(Tail(ss))

(***************************************************************************)
(* otimizar: expansion and ordering                                        *)
(***************************************************************************)
\* for i in range(peca.quantidade): pecas_expandidas.append(deepcopy(peca))
\* range(q) is empty for q <= 0.
Copias(p, i) ==
    IF p.quantidade <= 0 THEN <<>>
    ELSE [k \in 1..p.quantidade |-> DeepCopy(p, i, k)]

Expandir(ps) == Concat([i \in 1..Len(ps) |-> Copias(ps[i], i)])

\* ArgumentoAposExpandir counting each part's quantidade down to zero as it
\* makes the copies.
ArgumentoConsumido(ps) == [i \in 1..Len(ps) |-> [ps[i] EXCEPT !.quantidade = 0]]

\* The caller's list once the expansion loop is over: the loop reads each
\* part and appends deep copies to a list of its own, so the caller's list
\* and its parts are as they were.
ArgumentoAposExpandir(ps) == ps

\* Inserir placing the new element before the elements of equal key.
RECURSIVE InserirAntesDosIguais(_, _)
InserirAntesDosIguais(s, u) ==
    IF s = <<>> THEN <<u>>
    ELSE IF area(Head(s)) > area(u) THEN <<Head(s)>> \o InserirAntesDosIguais(Tail(s), u)
    ELSE <<u>> \o s

\* The place sorted() gives to one more element: after every element whose
\* key is at least its own (the sort is stable, also with reverse=True).
RECURSIVE Inserir(_, _)
Inserir(s, u) ==
    IF s = <<>> THEN <<u>>
    ELSE IF area(Head(s)) >= area(u) THEN <<Head(s)>> \o Inserir(Tail(s), u)
    ELSE <<u>> \o s

\* sorted(pecas_expandidas, key=lambda p: p.area(), reverse=True)
RECURSIVE Ordenar(_)
Ordenar(s) ==
    IF s = <<>> THEN <<>>
    ELSE Inserir(Ordenar(SubSeq(s, 1, Len(s) - 1)), s[Len(s)])

\* The same place under the key of app2.py and app4.py, the width.
RECURSIVE InserirPorLargura(_, _)
InserirPorLargura(s, u) ==
    IF s = <<>> THEN <<u>>
    ELSE IF Head(s).largura >= u.largura THEN <<Head(s)>> \o InserirPorLargura(Tail(s), u)
    ELSE <<u>> \o s

\* sorted(pecas_expandidas, key=lambda p: p.largura, reverse=True)
RECURSIVE OrdenarPorLargura(_)
OrdenarPorLargura(s) ==
    IF s = <<>> THEN <<>>
    ELSE InserirPorLargura(OrdenarPorLargura(SubSeq(s, 1, Len(s) - 1)), s[Len(s)])

(***************************************************************************)
(* _criar_faixa_otimizada                                                  *)
(*                                                                         *)
(* The locals of a strip build are the record                              *)
(*   [pool, altura_faixa, pecas_faixa, x_atual]                            *)
(* and each loop is the recursion on its index i (counted from 1).         *)
(***************************************************************************)
\* The locals as the build starts: altura_faixa = 0, pecas_faixa = [], x_atual = 0
LocaisIniciais(pool) ==
    [pool |-> pool, altura_faixa |-> 0, pecas_faixa |-> <<>>, x_atual |-> 0]

\* CabeNaLargura with the comparison the other way round.
CabeNaLarguraInvertido(y, larg) == y + larg > largura_chapa

\* CabeNaLargura testing the part's width alone, not its far edge at y.
CabeNaLarguraSemY(y, larg) == ~(larg > largura_chapa)

\* not (y_inicio + peca.largura > self.largura_chapa)
CabeNaLargura(y, larg) == ~(y + larg > largura_chapa)

\* Compativel without the tolerance test.
CompativelSempre(larg, altura) == TRUE

\* abs(peca.largura - altura_faixa) <= 5
Compativel(larg, altura) == Abs(larg - altura) <= Tolerancia

\* espaco_necessario = peca.comprimento; if pecas_faixa: += self.kerf
EspacoNecessario(comp, pecas_faixa) ==
    comp + (IF pecas_faixa # <<>> THEN kerf ELSE 0)

\* CabeNoComprimento testing the cursor alone, not the part's far end.
CabeNoComprimentoSoCursor(x, espaco) == x <= comprimento_chapa

\* x_atual + espaco_necessario <= self.comprimento_chapa
CabeNoComprimento(x, espaco) == x + espaco <= comprimento_chapa

\* Alocar popping the head of the pool instead of the part it placed.
AlocarPopPrimeiro(s, i, y, comp, rot) ==
    [s EXCEPT !.pecas_faixa = Append(@, PecaPosicionada(s.pool[i], s.x_atual, y, rot)),
              !.x_atual = @ + comp + kerf,
              !.pool = Pop(@, 1)]

\* Alocar advancing the cursor by the part's length alone.
AlocarSemKerf(s, i, y, comp, rot) ==
    [s EXCEPT !.pecas_faixa = Append(@, PecaPosicionada(s.pool[i], s.x_atual, y, rot)),
              !.x_atual = @ + comp,
              !.pool = Pop(@, i)]

\* Append the placed part, advance the cursor by its length plus the kerf,
\* and pop it from the pool.
Alocar(s, i, y, comp, rot) ==
    [s EXCEPT !.pecas_faixa = Append(@, PecaPosicionada(s.pool[i], s.x_atual, y, rot)),
              !.x_atual = @ + comp + kerf,
              !.pool = Pop(@, i)]

\* First pass: "Primeira passagem: encontrar pecas que cabem"
RECURSIVE PrimeiraPassagem(_, _, _)
PrimeiraPassagem(i, y, s) ==
    IF i > Len(s.pool) THEN s
    ELSE LET peca == s.pool[i] IN
         IF ~CabeNaLargura(y, peca.largura) THEN PrimeiraPassagem(i + 1, y, s)
         ELSE LET s1 == IF s.altura_faixa = 0
                        THEN [s EXCEPT !.altura_faixa = peca.largura]
                        ELSE s
              IN  IF /\ Compativel(peca.largura, s1.altura_faixa)
                     /\ CabeNoComprimento(s1.x_atual,
                            EspacoNecessario(peca.comprimento, s1.pecas_faixa))
                  THEN PrimeiraPassagem(i, y, Alocar(s1, i, y, peca.comprimento, FALSE))
                  ELSE PrimeiraPassagem(i + 1, y, s1)

\* peca.comprimento <= espaco_restante and peca.largura <= altura_faixa,
\* with espaco_restante = self.comprimento_chapa - x_atual
CabeNoEspacoRestante(peca, s) ==
    /\ peca.comprimento <= comprimento_chapa - s.x_atual
    /\ peca.largura <= s.altura_faixa

\* The loop of the second pass
RECURSIVE PreencherEspacos(_, _, _)
PreencherEspacos(i, y, s) ==
    IF i > Len(s.pool) THEN s
    ELSE LET peca == s.pool[i] IN
         IF CabeNoEspacoRestante(peca, s)
         THEN PreencherEspacos(i, y, Alocar(s, i, y, peca.comprimento, FALSE))
         ELSE PreencherEspacos(i + 1, y, s)

\* Second pass: "Segunda passagem: tentar preencher espacos vazios"
SegundaPassagem(y, s) ==
    IF s.x_atual < comprimento_chapa /\ s.altura_faixa > 0
    THEN PreencherEspacos(1, y, s)
    ELSE s

\* _criar_faixa_otimizada(y_inicio, pecas_disponiveis): the locals as it
\* returns; the strip is Faixa(y_inicio, altura_faixa, pecas_faixa) and pool
\* is what is left of pecas_disponiveis.
_criar_faixa_otimizada(y, pool) ==
    SegundaPassagem(y, PrimeiraPassagem(1, y, LocaisIniciais(pool)))

(***************************************************************************)
(* _criar_faixa_com_rotacao                                                *)
(***************************************************************************)
\* PodeRotacionar without the test of respeitar_veio.
PodeRotacionarSempre(peca) == TRUE

\* if peca.respeitar_veio: i += 1; continue
PodeRotacionar(peca) == ~peca.respeitar_veio

RECURSIVE PassagemRotacao(_, _, _)
PassagemRotacao(i, y, s) ==
    IF i > Len(s.pool) THEN s
    ELSE LET peca == s.pool[i]
             comp_rotacionado == peca.largura
             larg_rotacionado == peca.comprimento
         IN
         IF ~PodeRotacionar(peca) THEN PassagemRotacao(i + 1, y, s)
         ELSE IF ~CabeNaLargura(y, larg_rotacionado) THEN PassagemRotacao(i + 1, y, s)
         ELSE LET s1 == IF s.altura_faixa = 0
                        THEN [s EXCEPT !.altura_faixa = larg_rotacionado]
                        ELSE s
              IN  IF /\ Compativel(larg_rotacionado, s1.altura_faixa)
                     /\ CabeNoComprimento(s1.x_atual,
                            EspacoNecessario(comp_rotacionado, s1.pecas_faixa))
                  THEN PassagemRotacao(i, y, Alocar(s1, i, y, comp_rotacionado, TRUE))
                  ELSE PassagemRotacao(i + 1, y, s1)

\* _criar_faixa_com_rotacao(y_inicio, pecas_disponiveis)
_criar_faixa_com_rotacao(y, pool) == PassagemRotacao(1, y, LocaisIniciais(pool))

\* Faixa(y_inicio=y_inicio, altura=altura_faixa, pecas=pecas_faixa)
FaixaDe(y, s) == Faixa(y, s.altura_faixa, s.pecas_faixa)

(***************************************************************************)
(* Inputs                                                                  *)
(***************************************************************************)
\* The parts of the data model: L > 0, W > 0, quantidade >= 1.
PecasValidas ==
    {Peca(f[1], f[2], q, v) : f \in Formas, q \in 1..MaxQuantidade, v \in BOOLEAN}

\* The parts of the data model that come as one unit.
PecasUnitarias == {p \in PecasValidas : p.quantidade = 1}

\* Parts that may break the data model: a zero dimension or a zero quantity.
PecasQuaisquer ==
    {Peca(c, l, q, FALSE) : c \in DimensoesQuaisquer, l \in DimensoesQuaisquer,
                            q \in 0..1}

\* The parts of the documented scenarios.
PecasCenario == {Peca(f[1], f[2], f[3], f[4]) : f \in FormasCenario}

\* The lists of at most MaxPecas parts drawn from D.
Listas(D) == UNION {[1..n -> D] : n \in 0..MaxPecas}

(***************************************************************************)
(* The state after OtimizadorCortes.__init__: the sheet, the kerf and the  *)
(* grain mode are its arguments, self.chapas is empty.  No call of         *)
(* otimizar has been made yet.                                             *)
(***************************************************************************)
\* No call of the application's handlers is under way.
AppParado ==
    /\ pecas_data = <<>>
    /\ pecas_por_tipo = <<>>
    /\ indice_tipo = 0
    /\ resultados = <<>>
    /\ totais = <<>>

InitDe(geometrias, kerfs, sentidos) ==
    /\ \E g \in geometrias : comprimento_chapa = g[1] /\ largura_chapa = g[2]
    /\ kerf \in kerfs
    /\ sentido_veio \in sentidos
    /\ chapas = <<>>
    /\ pecas = <<>>
    /\ pecas_ordenadas = <<>>
    /\ numero_chapa = 0
    /\ faixas = <<>>
    /\ y_atual = 0
    /\ pc = "inicio"
    /\ AppParado

InitCom(sentidos) == InitDe(GeometriasChapa, Kerfs, sentidos)

Init == InitCom({VeioHorizontal})

(***************************************************************************)
(* otimizar                                                                *)
(***************************************************************************)
\* The call otimizar(ps): expand, sort, numero_chapa = 1.
OtimizarCom(entradas) ==
    /\ pc = "inicio"
    /\ \E ps \in entradas :
          /\ pecas' = ArgumentoAposExpandir(ps)
          /\ pecas_ordenadas' = Ordenar(Expandir(ps))
    /\ numero_chapa' = 1
    /\ pc' = "otimizar"
    /\ UNCHANGED <<comprimento_chapa, largura_chapa, kerf, sentido_veio,
                   chapas, faixas, y_atual>>
    /\ UNCHANGED estado_app

\* A call with a list of parts of the data model.
Otimizar == OtimizarCom(Listas(PecasValidas))

\* A call with a list of parts of one unit each.
OtimizarUnitarias == OtimizarCom(Listas(PecasUnitarias))

\* A call with a list of parts that may break the data model.
OtimizarQualquer == OtimizarCom(Listas(PecasQuaisquer))

\* while pecas_ordenadas: the call of _criar_chapa_otimizada, which starts
\* with faixas = [] and y_atual = 0.
IniciarChapa ==
    /\ pc = "otimizar"
    /\ pecas_ordenadas # <<>>
    /\ faixas' = <<>>
    /\ y_atual' = 0
    /\ pc' = "chapa"
    /\ UNCHANGED <<pecas, comprimento_chapa, largura_chapa, kerf, sentido_veio,
                   chapas, pecas_ordenadas, numero_chapa>>
    /\ UNCHANGED estado_app

\* The pool is empty: return self.chapas.
Retornar ==
    /\ pc = "otimizar"
    /\ pecas_ordenadas = <<>>
    /\ pc' = "done"
    /\ UNCHANGED <<pecas, comprimento_chapa, largura_chapa, kerf, sentido_veio,
                   chapas, pecas_ordenadas, numero_chapa, faixas, y_atual>>
    /\ UNCHANGED estado_app

(***************************************************************************)
(* _criar_chapa_otimizada                                                  *)
(***************************************************************************)
\* while y_atual < self.largura_chapa and pecas_disponiveis
CondicaoLacoChapa == y_atual < largura_chapa /\ pecas_ordenadas # <<>>

\* faixas.append(faixa); y_atual += faixa.altura + self.kerf
\* (the strip build has popped the placed parts from the pool)
AnexarFaixa(s) ==
    /\ faixas' = Append(faixas, FaixaDe(y_atual, s))
    /\ y_atual' = y_atual + s.altura_faixa + kerf
    /\ pecas_ordenadas' = s.pool
    /\ pc' = "chapa"

\* One turn of the loop up to the test of the strip of
\* _criar_faixa_otimizada: a strip with parts is appended, an empty one
\* sends the turn on to the rotation.
TentarFaixa ==
    /\ pc = "chapa"
    /\ CondicaoLacoChapa
    /\ LET s == _criar_faixa_otimizada(y_atual, pecas_ordenadas) IN
       IF s.pecas_faixa # <<>>
       THEN AnexarFaixa(s)
       ELSE /\ pc' = "rotacao"
            /\ UNCHANGED <<faixas, y_atual, pecas_ordenadas>>
    /\ UNCHANGED <<pecas, comprimento_chapa, largura_chapa, kerf, sentido_veio,
                   chapas, numero_chapa>>
    /\ UNCHANGED estado_app

\* The rest of the turn: the strip of _criar_faixa_com_rotacao is appended,
\* or, empty too, breaks the loop.
TentarRotacao ==
    /\ pc = "rotacao"
    /\ LET s == _criar_faixa_com_rotacao(y_atual, pecas_ordenadas) IN
       IF s.pecas_faixa # <<>>
       THEN AnexarFaixa(s)
       ELSE /\ pc' = "fim_chapa"
            /\ UNCHANGED <<faixas, y_atual, pecas_ordenadas>>
    /\ UNCHANGED <<pecas, comprimento_chapa, largura_chapa, kerf, sentido_veio,
                   chapas, numero_chapa>>
    /\ UNCHANGED estado_app

\* The loop condition fails.
SairLacoChapa ==
    /\ pc = "chapa"
    /\ ~CondicaoLacoChapa
    /\ pc' = "fim_chapa"
    /\ UNCHANGED <<pecas, comprimento_chapa, largura_chapa, kerf, sentido_veio,
                   chapas, pecas_ordenadas, numero_chapa, faixas, y_atual>>
    /\ UNCHANGED estado_app

\* A sheet without strips was appended last.  The strip builds that left it
\* empty popped nothing, so from then on every turn of otimizar's loop builds
\* the same empty sheet from the same pool, under the next number.
SemProgresso(cs) == cs # <<>> /\ cs[Len(cs)].faixas = <<>>

\* self.chapas.append(chapa).  The model keeps the list up to its first
\* sheet without strips: the empty sheets that follow it are not stored.
AnexarChapa(cs, c) == IF SemProgresso(cs) THEN cs ELSE Append(cs, c)

\* numero_chapa += 1, no longer counted once the empty sheets repeat.
ProximoNumero(n, cs) == IF SemProgresso(cs) THEN n ELSE n + 1

\* _criar_chapa_otimizada returns the Chapa; otimizar appends it and counts.
FecharChapa ==
    /\ pc = "fim_chapa"
    /\ chapas' = AnexarChapa(chapas, Chapa(numero_chapa, faixas))
    /\ numero_chapa' = ProximoNumero(numero_chapa, chapas)
    /\ pc' = "otimizar"
    /\ UNCHANGED <<pecas, comprimento_chapa, largura_chapa, kerf, sentido_veio,
                   pecas_ordenadas, faixas, y_atual>>
    /\ UNCHANGED estado_app

\* The steps of a call once it has its pool.
Passo ==
    \/ IniciarChapa
    \/ Retornar
    \/ TentarFaixa
    \/ TentarRotacao
    \/ SairLacoChapa
    \/ FecharChapa

Next == Otimizar \/ Passo

Spec == Init /\ [][Next]_vars

\* The call with parts of one unit each.  It runs one statement after the
\* other and nothing else is scheduled: a step that can be taken is taken.
NextUnitarias == OtimizarUnitarias \/ Passo

FairSpec == Init /\ [][NextUnitarias]_vars /\ WF_vars(NextUnitarias)

\* The same call, scheduled the same way, on a sheet half as wide, on which
\* two of the wider parts do not share a sheet.
InitEstreita == InitDe(GeometriasEstreitas, Kerfs, {VeioHorizontal})

FairSpecEstreita == InitEstreita /\ [][NextUnitarias]_vars /\ WF_vars(NextUnitarias)

\* The same call with the three options of the selector.
InitVeio == InitCom(SentidosVeio)

SpecVeio == InitVeio /\ [][Next]_vars

\* The same call with parts that may break the data model.
NextQualquer == OtimizarQualquer \/ Passo

SpecQualquer == Init /\ [][NextQualquer]_vars

\* The same call on a sheet that may have no area.
InitGeometria == InitDe(GeometriasQuaisquer, Kerfs, {VeioHorizontal})

SpecGeometria == InitGeometria /\ [][NextQualquer]_vars

\* A further call of otimizar on the same OtimizadorCortes, once the call
\* before it has returned: the pool and the counter start anew, self.chapas
\* is the list the earlier calls appended to.  Calls are made while that list
\* holds at most MaxChapasAntes sheets.
OtimizarDeNovo ==
    /\ pc = "done"
    /\ Len(chapas) <= MaxChapasAntes
    /\ \E ps \in Listas(PecasUnitarias) :
          /\ pecas' = ArgumentoAposExpandir(ps)
          /\ pecas_ordenadas' = Ordenar(Expandir(ps))
    /\ numero_chapa' = 1
    /\ pc' = "otimizar"
    /\ UNCHANGED <<comprimento_chapa, largura_chapa, kerf, sentido_veio,
                   chapas, faixas, y_atual>>
    /\ UNCHANGED estado_app

NextDeNovo == OtimizarUnitarias \/ OtimizarDeNovo \/ Passo

SpecDeNovo == Init /\ [][NextDeNovo]_vars

\* A call with the sheet, the kerf and the parts of the documented scenarios.
InitCenario == InitDe(GeometriasCenario, KerfsCenario, {VeioHorizontal})

OtimizarCenario == OtimizarCom(Listas(PecasCenario))

NextCenario == OtimizarCenario \/ Passo

SpecCenario == InitCenario /\ [][NextCenario]_vars

(***************************************************************************)
(* Chapa.calcular_utilizacao                                               *)
(***************************************************************************)
\* The placed parts of a list of strips, strip by strip.
PecasDasFaixas(fs) == Concat([i \in 1..Len(fs) |-> fs[i].pecas])

\* area_total = self.comprimento * self.largura
area_total(c) == c.comprimento * c.largura

\* area_usada = sum(p.peca.comprimento * p.peca.largura
\*                  for faixa in self.faixas for p in faixa.pecas)
area_usada(c) ==
    LET ps == PecasDasFaixas(c.faixas)
    IN  SumSeq([i \in 1..Len(ps) |-> ps[i].peca.comprimento * ps[i].peca.largura])

\* A value of the float arithmetic, kept exact: num / den.
Fracao(n, d) == [num |-> n, den |-> d]

\* The outcome of a call that returns v; a call that raises has tipo "raise".
Retorno(v) == [tipo |-> "return", valor |-> v]

\* return (area_usada / area_total) * 100 if area_total > 0 else 0
calcular_utilizacao(c) ==
    IF area_total(c) > 0
    THEN Retorno(Fracao(area_usada(c) * 100, area_total(c)))
    ELSE Retorno(Fracao(0, 1))

\* return 100 - self.calcular_utilizacao()
calcular_desperdicio(c) ==
    LET u == calcular_utilizacao(c).valor
    IN  Retorno(Fracao(100 * u.den - u.num, u.den))

(***************************************************************************)
(* processar_otimizacao_por_tipo and the totals of                         *)
(* exibir_resultados_otimizacao (src/app16_Custo_total.py, the same code   *)
(* in src/app9.py).  The engine they load is the module of the classes     *)
(* above.  A dict is the sequence of its entries in insertion order.       *)
(***************************************************************************)
\* The rows of the sheet-type table: session.query(TipoChapa).get(id)
TiposChapa ==
    1 :> [comprimento |-> 2750, largura |-> 1840, preco |-> 200]
    @@ 2 :> [comprimento |-> 2200, largura |-> 1600, preco |-> 150]

\* The rows of the banding-type table: session.query(TipoFita).get(id),
\* comprimento_rolo in metres.
TiposFita ==
    1 :> [comprimento_rolo |-> 10, preco_rolo |-> 25]
    @@ 2 :> [comprimento_rolo |-> 20, preco_rolo |-> 40]

\* total_m = total_mm / 1000
MmPorMetro == 1000

\* One entry of pecas_data.  tipo_fita_id 0 stands for no banding type
\* (None); b holds the flags fita_borda_comp1, _comp2, _larg1, _larg2.
PecaData(c, l, q, v, tc, tf, b) ==
    [comprimento |-> c, largura |-> l, quantidade |-> q, respeitar_veio |-> v,
     tipo_chapa_id |-> tc, tipo_fita_id |-> tf,
     fita_borda_comp1 |-> b[1], fita_borda_comp2 |-> b[2],
     fita_borda_larg1 |-> b[3], fita_borda_larg2 |-> b[4]]

\* engine.Peca(..., quantidade=1, ...) built from an entry of pecas_data,
\* with its four edge-banding flags.
PecaDoEngine(d) ==
    [comprimento |-> d.comprimento, largura |-> d.largura, quantidade |-> 1,
     respeitar_veio |-> d.respeitar_veio,
     fita_borda_comp1 |-> d.fita_borda_comp1, fita_borda_comp2 |-> d.fita_borda_comp2,
     fita_borda_larg1 |-> d.fita_borda_larg1, fita_borda_larg2 |-> d.fita_borda_larg2]

\* Peca.comprimento_fita
comprimento_fita(p) ==
    (IF p.fita_borda_comp1 THEN p.comprimento ELSE 0)
    + (IF p.fita_borda_comp2 THEN p.comprimento ELSE 0)
    + (IF p.fita_borda_larg1 THEN p.largura ELSE 0)
    + (IF p.fita_borda_larg2 THEN p.largura ELSE 0)

\* for _ in range(peca_data['quantidade']): ...append((peca_obj, tipo_fita_id))
UnidadesComFita(d) ==
    IF d.quantidade <= 0 THEN <<>>
    ELSE [k \in 1..d.quantidade |->
             [peca |-> PecaDoEngine(d), tipo_fita_id |-> d.tipo_fita_id]]

\* The index of the entry of the dict dic whose field campo is chave; 0 if
\* there is none.
Indice(dic, campo, chave) ==
    IF \E i \in 1..Len(dic) : dic[i][campo] = chave
    THEN CHOOSE i \in 1..Len(dic) : dic[i][campo] = chave
    ELSE 0

\* One turn of the grouping loop: the entry of the sheet type is created
\* if it is new, and the units of d are appended to it.
AgruparUma(grupos, d) ==
    LET i == Indice(grupos, "tipo_chapa_id", d.tipo_chapa_id) IN
    IF i = 0
    THEN Append(grupos, [tipo_chapa_id |-> d.tipo_chapa_id,
                         pecas_com_fita |-> UnidadesComFita(d)])
    ELSE [grupos EXCEPT ![i].pecas_com_fita = @ \o UnidadesComFita(d)]

\* for peca_data in pecas_data: ...
RECURSIVE Agrupar(_, _)
Agrupar(ds, grupos) ==
    IF ds = <<>> THEN grupos
    ELSE Agrupar(Tail(ds), AgruparUma(grupos, Head(ds)))

\* for peca_obj, tipo_fita_id in pecas_com_fita: if tipo_fita_id: ...
\*     total_fita_por_tipo[tipo_fita_id] += peca_obj.comprimento_fita()
RECURSIVE SomarFitas(_, _)
SomarFitas(us, totais_fita) ==
    IF us = <<>> THEN totais_fita
    ELSE LET u == Head(us)
             i == Indice(totais_fita, "tipo_fita_id", u.tipo_fita_id)
             soma ==
                 IF u.tipo_fita_id = 0 THEN totais_fita
                 ELSE IF i = 0
                 THEN Append(totais_fita, [tipo_fita_id |-> u.tipo_fita_id,
                                           total_mm |-> comprimento_fita(u.peca)])
                 ELSE [totais_fita EXCEPT ![i].total_mm = @ + comprimento_fita(u.peca)]
         IN  SomarFitas(Tail(us), soma)

\* Rolos rounding down.
RolosParaBaixo(total_mm, comprimento_rolo) ==
    total_mm \div (comprimento_rolo * MmPorMetro)

\* rolos = -(-total_m // tipo_fita.comprimento_rolo), with
\* total_m = total_mm / 1000: the floor division of the negated total.
Rolos(total_mm, comprimento_rolo) ==
    -((-total_mm) \div (comprimento_rolo * MmPorMetro))

\* custos_fita_por_tipo[tipo_fita_id] = {total_metros, rolos, custo}
CustoFita(t) ==
    LET tipo_fita == TiposFita[t.tipo_fita_id]
        rolos == Rolos(t.total_mm, tipo_fita.comprimento_rolo)
    IN  [tipo_fita_id |-> t.tipo_fita_id,
         total_metros |-> Fracao(t.total_mm, MmPorMetro),
         rolos |-> rolos,
         custo |-> rolos * tipo_fita.preco_rolo]

\* custos_fita_por_tipo of one sheet type
CustosFita(us) ==
    LET totais_fita == SomarFitas(us, <<>>)
    IN  [i \in 1..Len(totais_fita) |-> CustoFita(totais_fita[i])]

\* The entries pecas_data draws from: five or six units of a 1000 x 500
\* part, of either sheet type, with no banding type or one of the two, banded
\* on its two long edges or on all four.
QuantidadesApp == {5, 6}

BordasApp == {<<TRUE, TRUE, FALSE, FALSE>>, <<TRUE, TRUE, TRUE, TRUE>>}

EntradasApp ==
    {PecaData(1000, 500, q, FALSE, tc, tf, b) :
        q \in QuantidadesApp, tc \in DOMAIN TiposChapa,
        tf \in {0} \cup DOMAIN TiposFita, b \in BordasApp}

\* The application before the button is pressed: the parts of the project,
\* the kerf and the grain mode are chosen, no optimizer exists yet.
InitApp ==
    /\ comprimento_chapa = 0
    /\ largura_chapa = 0
    /\ kerf \in KerfsCenario
    /\ sentido_veio = VeioHorizontal
    /\ chapas = <<>>
    /\ pecas = <<>>
    /\ pecas_ordenadas = <<>>
    /\ numero_chapa = 0
    /\ faixas = <<>>
    /\ y_atual = 0
    /\ pc = "app_inicio"
    /\ AppParado

\* The call processar_otimizacao_por_tipo(ds, kerf, sentido_veio) up to the
\* loop over the sheet types: the grouping of the parts.
ProcessarOtimizacaoPorTipo ==
    /\ pc = "app_inicio"
    /\ \E ds \in Listas(EntradasApp) :
          /\ pecas_data' = ds
          /\ pecas_por_tipo' = Agrupar(ds, <<>>)
    /\ indice_tipo' = 1
    /\ resultados' = <<>>
    /\ pc' = "app_tipo"
    /\ UNCHANGED <<pecas, comprimento_chapa, largura_chapa, kerf, sentido_veio,
                   chapas, pecas_ordenadas, numero_chapa, faixas, y_atual, totais>>

\* OtimizarTipo calling otimizar on one OtimizadorCortes made before the
\* loop, whose self.chapas is kept from one sheet type to the next.
OtimizarTipoMesmoOtimizador ==
    /\ pc = "app_tipo"
    /\ indice_tipo <= Len(pecas_por_tipo)
    /\ LET grupo == pecas_por_tipo[indice_tipo]
           tipo_chapa == TiposChapa[grupo.tipo_chapa_id]
           pecas_lista == [i \in 1..Len(grupo.pecas_com_fita) |->
                              grupo.pecas_com_fita[i].peca]
       IN  /\ comprimento_chapa' = tipo_chapa.comprimento
           /\ largura_chapa' = tipo_chapa.largura
           /\ pecas' = pecas_lista
           /\ pecas_ordenadas' = Ordenar(Expandir(pecas_lista))
    /\ chapas' = chapas
    /\ numero_chapa' = 1
    /\ faixas' = <<>>
    /\ y_atual' = 0
    /\ pc' = "otimizar"
    /\ UNCHANGED <<kerf, sentido_veio, estado_app>>

\* One turn of the loop over the sheet types, up to the call of otimizar: a
\* new OtimizadorCortes with the geometry of the sheet type, and the call
\* otimizador.otimizar(pecas_lista).
OtimizarTipo ==
    /\ pc = "app_tipo"
    /\ indice_tipo <= Len(pecas_por_tipo)
    /\ LET grupo == pecas_por_tipo[indice_tipo]
           tipo_chapa == TiposChapa[grupo.tipo_chapa_id]
           pecas_lista == [i \in 1..Len(grupo.pecas_com_fita) |->
                              grupo.pecas_com_fita[i].peca]
       IN  /\ comprimento_chapa' = tipo_chapa.comprimento
           /\ largura_chapa' = tipo_chapa.largura
           /\ pecas' = pecas_lista
           /\ pecas_ordenadas' = Ordenar(Expandir(pecas_lista))
    /\ chapas' = <<>>
    /\ numero_chapa' = 1
    /\ faixas' = <<>>
    /\ y_atual' = 0
    /\ pc' = "otimizar"
    /\ UNCHANGED <<kerf, sentido_veio, estado_app>>

\* The rest of the turn, once otimizar has returned: the banding totals and
\* costs of the sheet type, and its entry of resultados.
CalcularCustosFita ==
    /\ pc = "done"
    /\ indice_tipo \in 1..Len(pecas_por_tipo)
    /\ LET grupo == pecas_por_tipo[indice_tipo] IN
       resultados' = Append(resultados,
                            [tipo_chapa_id |-> grupo.tipo_chapa_id,
                             chapas |-> chapas,
                             custos_fita |-> CustosFita(grupo.pecas_com_fita)])
    /\ indice_tipo' = indice_tipo + 1
    /\ pc' = "app_tipo"
    /\ UNCHANGED <<pecas, comprimento_chapa, largura_chapa, kerf, sentido_veio,
                   chapas, pecas_ordenadas, numero_chapa, faixas, y_atual,
                   pecas_data, pecas_por_tipo, totais>>

\* The loop is over: return resultados, which the caller stores in
\* st.session_state.resultados_otimizacao.
RetornarResultados ==
    /\ pc = "app_tipo"
    /\ indice_tipo > Len(pecas_por_tipo)
    /\ pc' = "app_resultados"
    /\ UNCHANGED <<pecas, comprimento_chapa, largura_chapa, kerf, sentido_veio,
                   chapas, pecas_ordenadas, numero_chapa, faixas, y_atual,
                   estado_app>>

\* sum(cf['custo'] for cf in r['custos_fita'].values())
CustoFitasDoTipo(r) ==
    SumSeq([j \in 1..Len(r.custos_fita) |-> r.custos_fita[j].custo])

\* exibir_resultados_otimizacao, called when the stored result is not
\* empty: the totals over the sheet types.
ExibirResultados ==
    /\ pc = "app_resultados"
    /\ resultados # <<>>
    /\ LET total_chapas_geral ==
               SumSeq([i \in 1..Len(resultados) |-> Len(resultados[i].chapas)])
           custo_total_chapas ==
               SumSeq([i \in 1..Len(resultados) |->
                          Len(resultados[i].chapas)
                              * TiposChapa[resultados[i].tipo_chapa_id].preco])
           custo_total_fitas ==
               SumSeq([i \in 1..Len(resultados) |-> CustoFitasDoTipo(resultados[i])])
       IN  totais' = [total_chapas_geral |-> total_chapas_geral,
                      custo_total_chapas |-> custo_total_chapas,
                      custo_total_fitas |-> custo_total_fitas,
                      custo_total_projeto |-> custo_total_chapas + custo_total_fitas]
    /\ pc' = "app_exibido"
    /\ UNCHANGED <<pecas, comprimento_chapa, largura_chapa, kerf, sentido_veio,
                   chapas, pecas_ordenadas, numero_chapa, faixas, y_atual,
                   pecas_data, pecas_por_tipo, indice_tipo, resultados>>

NextApp ==
    \/ ProcessarOtimizacaoPorTipo
    \/ OtimizarTipo
    \/ Passo
    \/ CalcularCustosFita
    \/ RetornarResultados
    \/ ExibirResultados

SpecApp == InitApp /\ [][NextApp]_vars

(***************************************************************************)
(* ap.py: gerar_chapas, the earliest engine                                *)
(*                                                                         *)
(* The sheet and the kerf are the sidebar values CH_L, CH_A and KERF, held *)
(* here in the variables of the sheet and the kerf; pecas is               *)
(* st.session_state.pecas, a list of tuples (nome, w, h), and chapas is    *)
(* the list gerar_chapas returns: one list of rectangles for each sheet.   *)
(***************************************************************************)
CH_L == comprimento_chapa

CH_A == largura_chapa

KERF == kerf

\* The sidebar values as the page loads: 2750 x 1850, kerf 5.
GeometriasAp == {<<2750, 1850>>}

KerfsAp == {5}

\* Lengths and widths of the parts of the form, none longer than the sheet.
ComprimentosAp == {1000, 1500, 2750}

LargurasAp == {600, 900, 1000, 1850}

\* The tuples (nome, w, h) appended by the form.
PecasAp == {<<"PRATELEIRA", w, h>> : w \in ComprimentosAp, h \in LargurasAp}

\* The place restantes.sort(key=lambda p: p[2], reverse=True) gives to one
\* more tuple: after every tuple at least as high (the sort is stable).
RECURSIVE InserirPorAltura(_, _)
InserirPorAltura(s, u) ==
    IF s = <<>> THEN <<u>>
    ELSE IF Head(s)[3] >= u[3] THEN <<Head(s)>> \o InserirPorAltura(Tail(s), u)
    ELSE <<u>> \o s

\* restantes.sort(key=lambda p: p[2], reverse=True)
RECURSIVE OrdenarPorAltura(_)
OrdenarPorAltura(s) ==
    IF s = <<>> THEN <<>>
    ELSE InserirPorAltura(OrdenarPorAltura(SubSeq(s, 1, Len(s) - 1)), s[Len(s)])

\* chapa.append({"x": x, "y": y, "w": w, "h": h, "nome": nome})
Retangulo(x, y, p) == [x |-> x, y |-> y, w |-> p[2], h |-> p[3], nome |-> p[1]]

\* for nome, w, h in restantes: if h <= altura_faixa and x + w <= CH_L: ...
\* followed by for u in usados: restantes.remove(u).  f holds the cursor x,
\* the rectangles placed and the tuples left.
RECURSIVE VarrerRestantes(_, _, _, _, _)
VarrerRestantes(i, restantes, altura_faixa, y, f) ==
    IF i > Len(restantes) THEN f
    ELSE LET p == restantes[i] IN
         IF p[3] <= altura_faixa /\ f.x + p[2] <= CH_L
         THEN VarrerRestantes(i + 1, restantes, altura_faixa, y,
                  [f EXCEPT !.chapa = Append(@, Retangulo(f.x, y, p)),
                            !.x = @ + p[2] + KERF])
         ELSE VarrerRestantes(i + 1, restantes, altura_faixa, y,
                  [f EXCEPT !.restantes = Append(@, p)])

\* while restantes and y < CH_A: one strip per turn, as high as the first
\* tuple left; y += altura_faixa + KERF
RECURSIVE LacoDeFaixas(_, _, _)
LacoDeFaixas(restantes, y, chapa) ==
    IF ~(restantes # <<>> /\ y < CH_A) THEN [chapa |-> chapa, restantes |-> restantes]
    ELSE LET altura_faixa == restantes[1][3]
             f == VarrerRestantes(1, restantes, altura_faixa, y,
                                  [x |-> 0, chapa |-> chapa, restantes |-> <<>>])
         IN  LacoDeFaixas(f.restantes, y + altura_faixa + KERF, f.chapa)

\* while restantes: chapa = [], y = 0, sort, the strips, chapas.append(chapa)
RECURSIVE LacoDeChapas(_, _)
LacoDeChapas(restantes, cs) ==
    IF restantes = <<>> THEN cs
    ELSE LET c == LacoDeFaixas(OrdenarPorAltura(restantes), 0, <<>>) IN
         LacoDeChapas(c.restantes, Append(cs, c.chapa))

\* gerar_chapas(pecas): restantes = pecas[:], then the loop
gerar_chapas(ps) == LacoDeChapas(ps, <<>>)

\* The page before the button is pressed.
InitAp ==
    /\ \E g \in GeometriasAp : comprimento_chapa = g[1] /\ largura_chapa = g[2]
    /\ kerf \in KerfsAp
    /\ sentido_veio = SemVeio
    /\ chapas = <<>>
    /\ pecas = <<>>
    /\ pecas_ordenadas = <<>>
    /\ numero_chapa = 0
    /\ faixas = <<>>
    /\ y_atual = 0
    /\ pc = "ap_inicio"
    /\ AppParado

\* A call gerar_chapas(ps), as the button makes it with
\* st.session_state.pecas.
GerarChapas ==
    /\ pc = "ap_inicio"
    /\ \E ps \in Listas(PecasAp) :
          /\ pecas' = ps
          /\ chapas' = gerar_chapas(ps)
    /\ pc' = "ap_retorno"
    /\ UNCHANGED <<comprimento_chapa, largura_chapa, kerf, sentido_veio,
                   pecas_ordenadas, numero_chapa, faixas, y_atual, estado_app>>

NextAp == GerarChapas

SpecAp == InitAp /\ [][NextAp]_vars

(***************************************************************************)
(* What the properties speak of                                            *)
(***************************************************************************)
\* _criar_chapa_otimizada is running: faixas holds the strips of the sheet
\* being built.
EmConstrucao == pc \in {"chapa", "rotacao", "fim_chapa"}

\* Every part placed so far: those of the sheets of self.chapas, then those
\* of the sheet being built.
Posicionadas ==
    Concat([i \in 1..Len(chapas) |-> PecasDasFaixas(chapas[i].faixas)])
        \o (IF EmConstrucao THEN PecasDasFaixas(faixas) ELSE <<>>)

\* The lists of strips built so far, sheet by sheet: those of the sheets of
\* self.chapas, then that of the sheet being built.
ListasDeFaixas ==
    [i \in 1..Len(chapas) |-> chapas[i].faixas]
        \o (IF EmConstrucao THEN <<faixas>> ELSE <<>>)

\* Every strip built so far.
TodasFaixas == Concat(ListasDeFaixas)

\* The identity of a unit: which Peca of the input, which copy.
Id(u) == <<u.origem, u.copia>>

\* The units the input stands for: one per unit of quantidade.
Unidades ==
    {ik \in (1..Len(pecas)) \X (1..MaxQuantidade) : ik[2] <= pecas[ik[1]].quantidade}

\* Sum of quantidade over the input.
TotalQuantidade == SumSeq([i \in 1..Len(pecas) |-> pecas[i].quantidade])

\* The rectangles [x, x + comprimento_final) x [y, y + largura_final) of two
\* placed parts intersect.
Sobrepoe(a, b) ==
    /\ a.x < b.x + comprimento_final(b)
    /\ b.x < a.x + comprimento_final(a)
    /\ a.y < b.y + largura_final(b)
    /\ b.y < a.y + largura_final(a)

\* The unit fits the sheet in an orientation its grain lock permits.
CabeNaChapa(u) ==
    \/ u.comprimento <= comprimento_chapa /\ u.largura <= largura_chapa
    \/ /\ ~u.respeitar_veio
       /\ u.largura <= comprimento_chapa /\ u.comprimento <= largura_chapa

(***************************************************************************)
(* Properties                                                              *)
(***************************************************************************)
\* C1 (conservation).  From the expansion on, the placed parts and the pool
\* together hold every unit of the input exactly once: as many entries as
\* the sum of quantidade, and every unit among them.  When otimizar returns
\* the pool is empty, so each unit is placed exactly once, in one strip of
\* one returned sheet, and the placed parts count the sum of quantidade.
Conservacao ==
    pc # "inicio" =>
        LET ps == Posicionadas
            ids == [i \in 1..Len(ps) |-> Id(ps[i].peca)]
                       \o [i \in 1..Len(pecas_ordenadas) |-> Id(pecas_ordenadas[i])]
            total == TotalQuantidade
        IN  /\ Len(ids) = total
            /\ {ids[i] : i \in 1..Len(ids)} = Unidades
            /\ Cardinality(Unidades) = total
            /\ pc = "done" => Len(ps) = total

\* otimizar has returned two sheets or more, holding five units or more of
\* two different parts.
ConservacaoWitness ==
    /\ pc = "done"
    /\ Len(chapas) >= 2
    /\ Len(pecas) = 2
    /\ Len(Posicionadas) >= 5

\* C3 (bounds).  Every placed part, of any pass, rotated or not, lies within
\* the sheet: x >= 0, y >= 0, x + comprimento_final <= comprimento_chapa and
\* y + largura_final <= largura_chapa.
DentroDaChapa ==
    LET ps == Posicionadas IN
    \A i \in 1..Len(ps) :
        /\ ps[i].x >= 0
        /\ ps[i].y >= 0
        /\ ps[i].x + comprimento_final(ps[i]) <= comprimento_chapa
        /\ ps[i].y + largura_final(ps[i]) <= largura_chapa

\* The placed parts include one of each pass: a rotated one (rotation
\* pass), one that the first pass cannot have placed, since with the kerf it
\* asks for before a later part it would pass the sheet's end (second pass),
\* and an unrotated one that opens a strip below the first (first pass).
DentroDaChapaWitness ==
    LET ps == Posicionadas IN
    /\ \E i \in 1..Len(ps) : ps[i].rotacionada
    /\ \E i \in 1..Len(ps) :
          /\ ~ps[i].rotacionada
          /\ ps[i].x > 0
          /\ ps[i].x + comprimento_final(ps[i]) + kerf > comprimento_chapa
    /\ \E i \in 1..Len(ps) : ~ps[i].rotacionada /\ ps[i].x = 0 /\ ps[i].y > 0

\* C4 (grain).  In every state of the run a placed part that is rotated is
\* not grain-locked.
VeioRespeitado ==
    LET ps == Posicionadas IN
    \A i \in 1..Len(ps) : ps[i].rotacionada => ~ps[i].peca.respeitar_veio

\* The rotation pass has placed a part, rotated, and has passed over a
\* grain-locked part that is longer than the sheet and still waits in the pool.
VeioRespeitadoWitness ==
    /\ \E i \in 1..Len(Posicionadas) : Posicionadas[i].rotacionada
    /\ \E i \in 1..Len(pecas_ordenadas) :
          /\ pecas_ordenadas[i].respeitar_veio
          /\ pecas_ordenadas[i].comprimento > comprimento_chapa
          /\ pecas_ordenadas[i].largura <= comprimento_chapa

\* C2 (non-overlap).  On every sheet otimizar returns, no two distinct placed
\* parts have intersecting rectangles.
SemSobreposicao ==
    pc = "done" =>
        \A n \in 1..Len(chapas) :
            LET ps == PecasDasFaixas(chapas[n].faixas) IN
            \A i, j \in 1..Len(ps) : i # j => ~Sobrepoe(ps[i], ps[j])

\* C5 (termination).  otimizar returns on every input.
Terminacao == <>(pc = "done")

\* C6 (no starvation).  Once the pool is expanded, the run reaches a state
\* in which no unit that fits the sheet in a permitted orientation is left in
\* the pool: every unit that fits is eventually placed.
ColocaTodasAsQueCabem ==
    <>(/\ pc # "inicio"
       /\ \A i \in 1..Len(pecas_ordenadas) : ~CabeNaChapa(pecas_ordenadas[i]))

\* C7 (degenerate sheet).  When the sheet builder has returned a sheet
\* without strips, otimizar's loop builds no further sheet: its next step is
\* the return.
ChapaDegeneradaEncerra ==
    [][(pc = "otimizar" /\ chapas # <<>> /\ chapas[Len(chapas)].faixas = <<>>)
           => pc' = "done"]_vars

\* The input breaks the data model: a dimension that is not positive, or a
\* quantity that is.
EntradaInvalida ==
    \E i \in 1..Len(pecas) :
        pecas[i].comprimento <= 0 \/ pecas[i].largura <= 0 \/ pecas[i].quantidade <= 0

\* C8 (invalid input).  A call with an invalid part makes no placement and
\* does not return a result as if the input were valid.
EntradaInvalidaRejeitada ==
    EntradaInvalida => (Posicionadas = <<>> /\ pc # "done")

\* C9 (grain mode).  With a locked mode of the selector (the grain along the
\* length or along the width) no part is ever placed rotated; only
\* "Sem veio (MDF)" lets the rotation pass place parts.
ModoTravadoNaoRotaciona ==
    sentido_veio \in {VeioHorizontal, VeioVertical} =>
        \A i \in 1..Len(Posicionadas) : ~Posicionadas[i].rotacionada

\* C10 (utilization bounds).  On every sheet otimizar returns,
\* 0 <= calcular_utilizacao() <= 100: the area used is not negative and does
\* not exceed the sheet's area.
UtilizacaoLimitada ==
    pc = "done" =>
        \A n \in 1..Len(chapas) :
            /\ 0 <= area_usada(chapas[n])
            /\ area_usada(chapas[n]) <= area_total(chapas[n])

\* C17 (kerf spacing).  In every strip built by any pass the first part is at
\* x = 0 and each later part is at the x of the part before it plus that
\* part's effective length plus the kerf.
EspacamentoKerf ==
    LET fs == TodasFaixas IN
    \A n \in 1..Len(fs) :
        LET ps == fs[n].pecas IN
        \A i \in 1..Len(ps) :
            ps[i].x = IF i = 1 THEN 0
                      ELSE ps[i - 1].x + comprimento_final(ps[i - 1]) + kerf

\* With a kerf that is not zero, otimizar has returned a strip of two parts
\* or more and a strip of the rotation pass.
EspacamentoKerfWitness ==
    LET fs == TodasFaixas IN
    /\ pc = "done"
    /\ kerf > 0
    /\ \E n \in 1..Len(fs) : Len(fs[n].pecas) >= 2
    /\ \E n \in 1..Len(fs) : fs[n].pecas[1].rotacionada

\* C18 (stacking).  On every sheet the first strip starts at y = 0, each
\* later strip starts at the y_inicio of the strip before it plus that
\* strip's altura plus the kerf, and every strip ends within the sheet's
\* width; so the heights of the strips and the kerfs between them sum to the
\* sheet's width at most.
EmpilhamentoFaixas ==
    LET ls == ListasDeFaixas IN
    \A n \in 1..Len(ls) :
        LET fs == ls[n] IN
        /\ \A i \in 1..Len(fs) :
              /\ fs[i].y_inicio = IF i = 1 THEN 0
                                  ELSE fs[i - 1].y_inicio + fs[i - 1].altura + kerf
              /\ fs[i].y_inicio + fs[i].altura <= largura_chapa
        /\ fs # <<>> =>
              SumSeq([i \in 1..Len(fs) |-> fs[i].altura]) + (Len(fs) - 1) * kerf
                  <= largura_chapa

\* With a kerf that is not zero, otimizar has returned a sheet of three
\* strips and a second sheet after it.
EmpilhamentoFaixasWitness ==
    /\ pc = "done"
    /\ kerf > 0
    /\ Len(chapas) >= 2
    /\ \E n \in 1..Len(chapas) : Len(chapas[n].faixas) >= 3

\* C19 (no part taller than its strip).  In every strip of every returned
\* sheet, altura is at least the effective width of every part of the strip.
PecaNaoExcedeFaixa ==
    pc = "done" =>
        LET fs == TodasFaixas IN
        \A n \in 1..Len(fs) :
            \A i \in 1..Len(fs[n].pecas) :
                largura_final(fs[n].pecas[i]) <= fs[n].altura

\* The effective width of the placed part is within the tolerance of the
\* strip height a.
DentroDaTolerancia(pp, a) == Abs(largura_final(pp) - a) <= Tolerancia

\* C15 (strip width tolerance), as claimed.  For a valid input, in every
\* strip of every returned sheet every part's effective width differs from
\* the strip height by at most 5.
ToleranciaDaFaixa ==
    (pc = "done" /\ ~EntradaInvalida) =>
        LET fs == TodasFaixas IN
        \A n \in 1..Len(fs) :
            \A i \in 1..Len(fs[n].pecas) :
                DentroDaTolerancia(fs[n].pecas[i], fs[n].altura)

\* C15, amended.  Every strip is a run of parts whose effective width is
\* within 5 of the strip height (the defining pass, or the rotation pass),
\* followed by a run of unrotated parts no wider than the strip height (the
\* gap-fill pass), which may be narrower than the height by any amount.
ToleranciaOuPreenchimento ==
    LET fs == TodasFaixas IN
    \A n \in 1..Len(fs) :
        LET ps == fs[n].pecas IN
        \E k \in 0..Len(ps) :
            /\ \A i \in 1..k : DentroDaTolerancia(ps[i], fs[n].altura)
            /\ \A i \in (k + 1)..Len(ps) :
                  /\ ~ps[i].rotacionada
                  /\ ps[i].peca.largura <= fs[n].altura

\* otimizar has returned, for a valid input, a strip whose first part has
\* the strip's height and whose last part is narrower than it by more than
\* the tolerance.
ToleranciaOuPreenchimentoWitness ==
    LET fs == TodasFaixas IN
    /\ pc = "done"
    /\ ~EntradaInvalida
    /\ \E n \in 1..Len(fs) :
          LET ps == fs[n].pecas IN
          /\ Len(ps) >= 2
          /\ largura_final(ps[1]) = fs[n].altura
          /\ largura_final(ps[Len(ps)]) < fs[n].altura - Tolerancia

\* C20 (height fixed by the first accepted part).  For a valid input, the
\* altura of every strip built is the effective width of the strip's first
\* part, the one at x = 0: a part that was scanned and not placed has not
\* set it.
AlturaDaPrimeiraPeca ==
    ~EntradaInvalida =>
        LET fs == TodasFaixas IN
        \A n \in 1..Len(fs) :
            fs[n].pecas # <<>> => fs[n].altura = largura_final(fs[n].pecas[1])

\* C16 (zero-area sheet).  calcular_utilizacao on a sheet of self.chapas
\* whose comprimento x largura is 0 does not return a value: it reports an
\* error, so that calcular_desperdicio does not report 100.
ChapaSemAreaEhErro ==
    \A n \in 1..Len(chapas) :
        area_total(chapas[n]) = 0 =>
            /\ calcular_utilizacao(chapas[n]).tipo = "raise"
            /\ calcular_desperdicio(chapas[n]) # Retorno(Fracao(100, 1))

\* The input of scenario A: four units of one 800 x 300 part, not
\* grain-locked.
EntradaCenarioA == pecas = <<Peca(800, 300, 4, FALSE)>>

\* C14 (scenario A), as claimed.  With the sheet 2750 x 1840 and the kerf 3,
\* otimizar returns for scenario A one sheet whose only strip holds the four
\* units.
CenarioAUmaFaixa ==
    (pc = "done" /\ EntradaCenarioA) =>
        /\ Len(chapas) = 1
        /\ Len(chapas[1].faixas) = 1
        /\ Len(chapas[1].faixas[1].pecas) = 4

\* C14, amended.  otimizar returns for scenario A one sheet of two strips:
\* three units in the first, at x = 0, 803 and 1606, and the fourth in the
\* second, at y = 303; the area used is 4 x 800 x 300 of 2750 x 1840.
CenarioADuasFaixas ==
    (pc = "done" /\ EntradaCenarioA) =>
        /\ Len(chapas) = 1
        /\ Len(chapas[1].faixas) = 2
        /\ [i \in 1..3 |-> chapas[1].faixas[1].pecas[i].x] = <<0, 803, 1606>>
        /\ Len(chapas[1].faixas[1].pecas) = 3
        /\ Len(chapas[1].faixas[2].pecas) = 1
        /\ chapas[1].faixas[2].y_inicio = 303
        /\ \A i \in 1..Len(Posicionadas) : ~Posicionadas[i].rotacionada
        /\ area_usada(chapas[1]) = 4 * 800 * 300
        /\ area_total(chapas[1]) = 2750 * 1840

\* otimizar has returned for scenario A.
CenarioADuasFaixasWitness == pc = "done" /\ EntradaCenarioA /\ Len(Posicionadas) = 4

\* n is the least number of rolls of r millimetres that cover t millimetres.
MenorQueCobre(n, t, r) == n * r >= t /\ (n - 1) * r < t

\* C11 (banding rounding).  For every banding total T > 0 that
\* processar_otimizacao_por_tipo computes, rolos is the least integer n with
\* n x comprimento_rolo >= T, and custo is rolos x preco_rolo.
RolosParaCima ==
    \A i \in 1..Len(resultados) :
        \A j \in 1..Len(resultados[i].custos_fita) :
            LET cf == resultados[i].custos_fita[j]
                tipo_fita == TiposFita[cf.tipo_fita_id]
            IN  cf.total_metros.num > 0 =>
                    /\ MenorQueCobre(cf.rolos, cf.total_metros.num,
                                     tipo_fita.comprimento_rolo * cf.total_metros.den)
                    /\ cf.custo = cf.rolos * tipo_fita.preco_rolo

\* The results shown hold a total that fills its rolls exactly and a total
\* that takes two rolls or more and leaves the last one partly used.
RolosParaCimaWitness ==
    /\ pc = "app_exibido"
    /\ \E i \in 1..Len(resultados) :
          \E j \in 1..Len(resultados[i].custos_fita) :
              LET cf == resultados[i].custos_fita[j] IN
              /\ cf.rolos >= 1
              /\ cf.total_metros.num
                     = cf.rolos * TiposFita[cf.tipo_fita_id].comprimento_rolo * MmPorMetro
    /\ \E i \in 1..Len(resultados) :
          \E j \in 1..Len(resultados[i].custos_fita) :
              LET cf == resultados[i].custos_fita[j] IN
              /\ cf.rolos >= 2
              /\ cf.total_metros.num
                     < cf.rolos * TiposFita[cf.tipo_fita_id].comprimento_rolo * MmPorMetro

\* The banding of type f the whole project needs, in millimetres: the active
\* edges of every unit that refers to f, in every sheet type.
FitaDoProjeto(f) ==
    SumSeq([i \in 1..Len(pecas_data) |->
               IF pecas_data[i].tipo_fita_id = f
               THEN pecas_data[i].quantidade * comprimento_fita(pecas_data[i])
               ELSE 0])

\* The field campo (rolos or custo) of banding type f, summed over the
\* sheet types of resultados, as the totals shown sum it.
SomaDoTipoDeFita(f, campo) ==
    SumSeq([i \in 1..Len(resultados) |->
               SumSeq([j \in 1..Len(resultados[i].custos_fita) |->
                          IF resultados[i].custos_fita[j].tipo_fita_id = f
                          THEN resultados[i].custos_fita[j][campo]
                          ELSE 0])])

\* C12 (banding usage per type).  In the results shown, for each banding
\* type the rolls counted are the least number that covers the type's total
\* over the whole project, and the project's banding cost is those rolls
\* times the price per roll, summed over the types: a type used under two
\* sheet types is not rounded up twice.
FitaPorTipoNoProjeto ==
    pc = "app_exibido" =>
        /\ \A f \in DOMAIN TiposFita :
              /\ MenorQueCobre(SomaDoTipoDeFita(f, "rolos"), FitaDoProjeto(f),
                               TiposFita[f].comprimento_rolo * MmPorMetro)
              /\ SomaDoTipoDeFita(f, "custo")
                     = SomaDoTipoDeFita(f, "rolos") * TiposFita[f].preco_rolo
        /\ totais.custo_total_fitas
               = SomaDoTipoDeFita(1, "custo") + SomaDoTipoDeFita(2, "custo")

\* The unit could be placed without rotation in a strip that starts at y: it
\* passes the vertical test there and is no longer than the sheet.
CabeSemRotacao(u, y) ==
    CabeNaLargura(y, u.largura) /\ u.comprimento <= comprimento_chapa

\* C21 (rotation is a fallback).  Whenever a strip is appended, its parts
\* are all rotated or all not rotated; and a strip of rotated parts is
\* appended only by the rotation build that follows a strip build without
\* rotation that placed nothing at the same y, at a moment when no part of
\* the pool could have been placed without rotation at that y.
RotacaoSoComoRecurso ==
    [][Len(faixas') = Len(faixas) + 1 =>
          LET f == faixas'[Len(faixas')] IN
          /\ \A i \in 1..Len(f.pecas) :
                f.pecas[i].rotacionada = f.pecas[1].rotacionada
          /\ f.pecas[1].rotacionada =>
                /\ pc = "rotacao"
                /\ f.y_inicio = y_atual
                /\ _criar_faixa_otimizada(y_atual, pecas_ordenadas).pecas_faixa = <<>>
                /\ \A i \in 1..Len(pecas_ordenadas) :
                      ~CabeSemRotacao(pecas_ordenadas[i], y_atual)]_vars

\* The test of the second pass applied to the part turned by 90 degrees:
\* its rotated length (largura) within the space left after the cursor, its
\* rotated width (comprimento) within the strip height, and no grain lock.
CabeRotacionadaNoEspacoRestante(peca, s) ==
    /\ PodeRotacionar(peca)
    /\ peca.largura <= comprimento_chapa - s.x_atual
    /\ peca.comprimento <= s.altura_faixa

\* C22 (rotated gap-fill).  When the rotation build is about to return a
\* strip with parts, and the cursor has not reached the end of the sheet,
\* it leaves in the pool no part that the gap-fill rule would accept rotated.
RotacaoPreencheEspacos ==
    pc = "rotacao" =>
        LET s == _criar_faixa_com_rotacao(y_atual, pecas_ordenadas) IN
        (s.pecas_faixa # <<>> /\ s.x_atual < comprimento_chapa /\ s.altura_faixa > 0)
            => \A i \in 1..Len(s.pool) :
                   ~CabeRotacionadaNoEspacoRestante(s.pool[i], s)

\* C23 (one kerf per gap).  The defining pass leaves in the pool no part
\* that passes the vertical test, is width-compatible with the strip, and
\* placed at the cursor (the lengths of the parts of the strip plus one kerf
\* after each) would end within the sheet length.
DefinicaoContaKerfUmaVez ==
    (pc = "chapa" /\ CondicaoLacoChapa) =>
        LET s == PrimeiraPassagem(1, y_atual, LocaisIniciais(pecas_ordenadas)) IN
        \A i \in 1..Len(s.pool) :
            ~ /\ CabeNaLargura(y_atual, s.pool[i].largura)
              /\ Compativel(s.pool[i].largura, s.altura_faixa)
              /\ s.x_atual + s.pool[i].comprimento <= comprimento_chapa

\* Where the unit u stands in the list e of distinct units.
PosicaoEm(e, u) == CHOOSE j \in 1..Len(e) : e[j] = u

\* s holds the units of e, each once, in descending order of their keys
\* (chaves[i] is the key of s[i]), and units of equal key stand in s in the
\* order they have in e.
EhOrdenacaoEstavel(chaves, s, e) ==
    /\ Len(s) = Len(e)
    /\ \A j \in 1..Len(e) : \E i \in 1..Len(s) : s[i] = e[j]
    /\ \A i \in 1..Len(s) : \E j \in 1..Len(e) : s[i] = e[j]
    /\ \A i, j \in 1..Len(s) :
          i < j => /\ chaves[i] >= chaves[j]
                   /\ chaves[i] = chaves[j] => PosicaoEm(e, s[i]) < PosicaoEm(e, s[j])

\* otimizar has built its pool and no sheet yet.
PoolRecemOrdenado == pc = "otimizar" /\ chapas = <<>>

\* C24 (ordering strategy).  The pool otimizar starts to pack is the
\* expanded list of units in descending order of area, units of equal area
\* in input order, every unit once; and the ordering by width of app2.py and
\* app4.py gives the same list in descending order of width, units of equal
\* width in input order, every unit once.
OrdenacaoEstavel ==
    PoolRecemOrdenado =>
        LET e == Expandir(pecas)
            por_largura == OrdenarPorLargura(e)
        IN
        /\ EhOrdenacaoEstavel([i \in 1..Len(pecas_ordenadas) |-> area(pecas_ordenadas[i])],
                              pecas_ordenadas, e)
        /\ EhOrdenacaoEstavel([i \in 1..Len(por_largura) |-> por_largura[i].largura],
                              por_largura, e)

\* The pool holds two units of equal area and a unit that the ordering has
\* moved before a unit of an earlier part of the input; ordered by width the
\* same units stand in another order.
OrdenacaoEstavelWitness ==
    /\ PoolRecemOrdenado
    /\ \E i, j \in 1..Len(pecas_ordenadas) :
          i < j /\ area(pecas_ordenadas[i]) = area(pecas_ordenadas[j])
    /\ \E i, j \in 1..Len(pecas_ordenadas) :
          i < j /\ pecas_ordenadas[i].origem > pecas_ordenadas[j].origem
    /\ OrdenarPorLargura(Expandir(pecas)) # pecas_ordenadas

\* The units otimizar has made, wherever they are now: placed or in the pool.
UnidadesCriadas ==
    LET ps == Posicionadas IN
    [i \in 1..Len(ps) |-> ps[i].peca] \o pecas_ordenadas

\* C25 (catalog expansion).  From the expansion on there are as many units
\* as the sum of quantidade, exactly quantidade of them for each part of the
\* input, and each unit carries quantity 1 and the dimensions and the grain
\* lock of its part.
ExpansaoEmUnidades ==
    pc # "inicio" =>
        LET us == UnidadesCriadas IN
        /\ Len(us) = TotalQuantidade
        /\ \A k \in 1..Len(pecas) :
              Cardinality({i \in 1..Len(us) : us[i].origem = k}) = pecas[k].quantidade
        /\ \A i \in 1..Len(us) :
              /\ us[i].quantidade = 1
              /\ us[i].comprimento = pecas[us[i].origem].comprimento
              /\ us[i].largura = pecas[us[i].origem].largura
              /\ us[i].respeitar_veio = pecas[us[i].origem].respeitar_veio

(***************************************************************************)
(* One sheet type on its own                                               *)
(***************************************************************************)
\* The loop of _criar_chapa_otimizada as a function of the offset, the pool
\* and the strips so far: the strips of the sheet and what is left of the
\* pool.
RECURSIVE FaixasDaChapa(_, _, _)
FaixasDaChapa(y, pool, fs) ==
    IF ~(y < largura_chapa /\ pool # <<>>) THEN [faixas |-> fs, pool |-> pool]
    ELSE LET s == _criar_faixa_otimizada(y, pool)
             r == IF s.pecas_faixa # <<>> THEN s ELSE _criar_faixa_com_rotacao(y, pool)
         IN  IF r.pecas_faixa = <<>> THEN [faixas |-> fs, pool |-> pool]
             ELSE FaixasDaChapa(y + r.altura_faixa + kerf, r.pool,
                                Append(fs, FaixaDe(y, r)))

\* The loop of otimizar as a function of the next number, the pool and the
\* sheets so far, up to the return or to the first sheet without strips.
RECURSIVE ChapasDoPool(_, _, _)
ChapasDoPool(n, pool, cs) ==
    IF pool = <<>> THEN cs
    ELSE LET c == FaixasDaChapa(0, pool, <<>>) IN
         IF c.faixas = <<>> THEN Append(cs, Chapa(n, <<>>))
         ELSE ChapasDoPool(n + 1, c.pool, Append(cs, Chapa(n, c.faixas)))

\* What otimizar(ps) returns on a new OtimizadorCortes of the sheet and the
\* kerf at hand.
ChapasDe(ps) == ChapasDoPool(1, Ordenar(Expandir(ps)), <<>>)

\* The units of the entries of ds that name sheet type t, with their banding
\* type, in the order of ds.
UnidadesDoTipo(ds, t) ==
    Concat([i \in 1..Len(ds) |->
               IF ds[i].tipo_chapa_id = t THEN UnidadesComFita(ds[i]) ELSE <<>>])

\* The sheet types named in a list of entries or of results.
TiposEm(s) == {s[i].tipo_chapa_id : i \in 1..Len(s)}

\* C26 (partition independence).  resultados changes only by gaining the
\* entry of one sheet type t that has none yet, and that entry is a function
\* of the entries of pecas_data that name t, in input order, of the geometry
\* of t and of the kerf alone: its sheets are what otimizar returns for those
\* units on a new optimizer of that geometry, its banding figures are those
\* of the same units.  When the loop is over every sheet type named in
\* pecas_data has its entry.
ParticoesIndependentes ==
    [][/\ resultados' # resultados =>
             \E t \in DOMAIN TiposChapa :
                 LET proprias == UnidadesDoTipo(pecas_data, t) IN
                 /\ t \notin TiposEm(resultados)
                 /\ comprimento_chapa = TiposChapa[t].comprimento
                 /\ largura_chapa = TiposChapa[t].largura
                 /\ resultados' =
                        Append(resultados,
                               [tipo_chapa_id |-> t,
                                chapas |-> ChapasDe([i \in 1..Len(proprias) |->
                                                        proprias[i].peca]),
                                custos_fita |-> CustosFita(proprias)])
       /\ pc' = "app_resultados" => TiposEm(resultados') = TiposEm(pecas_data')
      ]_vars

\* The results of a project with two sheet types are shown: each type has
\* its sheets, and both have banding figures.
ParticoesIndependentesWitness ==
    /\ pc = "app_exibido"
    /\ Len(resultados) = 2
    /\ Len(pecas_data) = 2
    /\ \A i \in 1..2 : resultados[i].chapas # <<>> /\ resultados[i].custos_fita # <<>>

\* C27 (bounds in the earliest engine).  Every rectangle of every sheet
\* gerar_chapas returns lies within the sheet: x + w <= CH_L and
\* y + h <= CH_A.
RetangulosDentroDaChapa ==
    pc = "ap_retorno" =>
        \A n \in 1..Len(chapas) : \A i \in 1..Len(chapas[n]) :
            /\ chapas[n][i].x + chapas[n][i].w <= CH_L
            /\ chapas[n][i].y + chapas[n][i].h <= CH_A

\* C28 (the returned list).  The list a call of otimizar returns holds the
\* sheets of that call alone, numbered 1, 2, ... in list order; so the list
\* a call returned is not added to by a later call on the same optimizer,
\* and the list the later call returns does not hold the earlier sheets.
RetornoSoDaChamada ==
    pc = "done" => \A i \in 1..Len(chapas) : chapas[i].numero = i

\* otimizar has been called and every part of its argument is, unrotated,
\* no longer and no wider than the sheet.
TodasCabemSemRotacao ==
    /\ pc # "inicio"
    /\ \A i \in 1..Len(pecas) :
          /\ pecas[i].comprimento <= comprimento_chapa
          /\ pecas[i].largura <= largura_chapa

\* C29 (progress when everything fits).  When every unit fits the sheet
\* unrotated, every sheet built holds at least one strip, hence one unit,
\* there are never more sheets than units, and otimizar comes to its return
\* with an empty pool.
ProgressoQuandoTudoCabe ==
    /\ [](TodasCabemSemRotacao =>
              /\ \A n \in 1..Len(chapas) :
                    /\ chapas[n].faixas # <<>>
                    /\ \A k \in 1..Len(chapas[n].faixas) :
                          chapas[n].faixas[k].pecas # <<>>
              /\ pc = "fim_chapa" => faixas # <<>>
              /\ Len(chapas) <= TotalQuantidade)
    /\ <>(pc # "inicio" /\ (TodasCabemSemRotacao =>
                                pc = "done" /\ pecas_ordenadas = <<>>))

\* otimizar has returned two sheets for two parts that fit the sheet.
ProgressoQuandoTudoCabeWitness ==
    /\ pc = "done"
    /\ TodasCabemSemRotacao
    /\ pecas_ordenadas = <<>>
    /\ Len(pecas) = 2
    /\ Len(chapas) >= 2

\* C30 (the argument is left alone).  The deep copies made by the expansion
\* record the argument as it was when otimizar was called; at every later
\* moment of the call, and after it, the caller's list still has a part at
\* each index the units came from, with the comprimento, the largura, the
\* quantidade and the grain lock of those units, and it stands for exactly
\* the units that were made: same length, same order, same attributes.  The
\* strip builds pop from the pool alone.
ArgumentoIntacto ==
    pc # "inicio" =>
        LET us == UnidadesCriadas IN
        /\ Len(us) = TotalQuantidade
        /\ \A k \in 1..Len(pecas) :
              {us[i].copia : i \in {j \in 1..Len(us) : us[j].origem = k}}
                  = 1..pecas[k].quantidade
        /\ \A i \in 1..Len(us) :
              /\ us[i].origem \in 1..Len(pecas)
              /\ pecas[us[i].origem]
                     = Peca(us[i].comprimento, us[i].largura,
                            us[i].quantidade, us[i].respeitar_veio)

\* otimizar has returned after it placed the units of two different parts,
\* the second part of the argument first, and emptied its pool; the first
\* part stands for more than one unit.
ArgumentoIntactoWitness ==
    /\ pc = "done"
    /\ pecas_ordenadas = <<>>
    /\ Len(pecas) = 2
    /\ pecas[1] # pecas[2]
    /\ pecas[1].quantidade > 1
    /\ Posicionadas # <<>>
    /\ Posicionadas[1].peca.origem = 2

====
